---- MODULE Spec2Model ----
(***************************************************************************)
(* Game2048 (gym_game2048/envs/game2048.py): the board of exponents, the   *)
(* move-merge of a line (_combiner), the legal-move vector                 *)
(* (_update_legal_moves), the spawn (_spawn_block) and the handlers reset  *)
(* and step.  Rows, columns and lines are indexed from 0 as in the source. *)
(*                                                                         *)
(* Spec is the engine: __init__, then any sequence of reset and step.      *)
(* DeepSpec is the engine of a larger board: one reset, then a bounded     *)
(* number of steps.  TwinSpec runs a second instance beside the first,     *)
(* reset with the same seed and given the same actions: a generator is a   *)
(* function of its seed, so the twin draws what the first instance draws   *)
(* for as long as both have made the same draws so far, and draws freely   *)
(* afterwards.                                                             *)
(* UnitSpec and SpawnSpec apply the operations step is made of to boards   *)
(* drawn from bounded sets, WideSpec to lines of large tiles.              *)
(*                                                                         *)
(* Not modelled: the counters n_step and n_episode, which nothing reads,   *)
(* the rendering, and the observation, which is the board.  The two random *)
(* draws of a spawn are nondeterministic choices.  episode_over and calls  *)
(* are history variables: the code keeps neither.                          *)
(***************************************************************************)
EXTENDS Integers, Sequences, FiniteSets

VARIABLES
    size,            \* self.size
    board_goal,      \* self.board_goal = log2(goal)
    board,           \* self.board[r][c], uint8 exponents, 0 = empty
    legal_moves,     \* self.legal_moves[0..3], 0/1
    is_legal,        \* self.is_legal
    score,           \* self.score
    best_score,      \* self.best_score
    score_per_step,  \* self.score_per_step
    reward,          \* reward returned by the last step
    terminated,      \* terminated returned by the last step
    raised,          \* exception the last call ended with, "none" if it returned
    call,            \* the last call: [op, action]
    moved,           \* the board of the last call right before its last spawn
    n_spawn,         \* number of spawns the last call performed
    info,            \* the info dict the last call returned, NoInfo if it raised
    episode_over,    \* a step has returned terminated=True since the last reset
    twin,            \* a second engine instance, run beside this one (TwinSpec)
    calls            \* number of calls made, where the caller makes a bounded
                     \* number of them (DeepSpec)

vars == <<size, board_goal, board, legal_moves, is_legal, score, best_score,
          score_per_step, reward, terminated, raised, call, moved, n_spawn,
          info, episode_over, twin, calls>>

-----------------------------------------------------------------------------
(* Bounds of the model *)

\* engine specification: the exponent of the goal, log2(goal); 3 (goal = 8) is
\* the smallest goal __init__ accepts
EngineGoalExp == 3
\* and the board sizes the engine is constructed with (the size argument)
EngineSizes == {2}
\* the engine of a larger board, called a bounded number of times: the sizes
DeepSizes == {3}
\* the number of calls (reset and step) made on it
MaxCalls == 6
\* and the directions it is stepped in: Left and Up
DeepDirections == {0, 2}
\* boards drawn for the pure operations: every board up to this size ...
MaxFullSize == 2
\* ... with exponents up to this one
MaxFullExp == 1
\* and every board holding one line (a row or a column) up to this length
MaxLineSize == 4
\* with exponents up to this one
MaxLineExp == 3
\* the move applied to large tiles: the board size (the smallest board on which
\* play can build a tile of exponent 31) ...
WideSize == 6
\* ... the exponent of the goal (goal = 2^32, accepted by __init__) ...
WideGoalExp == 32
\* ... and the exponents the cells of the line are drawn from
WideExps == {0, 30, 31}

-----------------------------------------------------------------------------
(* Helpers *)

Idx(n) == 0 .. (n - 1)

Max2(a, b) == IF a > b THEN a ELSE b

RECURSIVE SumSeq(_)
SumSeq(s) == IF s = <<>> THEN 0 ELSE Head(s) + SumSeq(Tail(s))

\* np.zeros((size, size), dtype=np.uint8)
ZeroBoard(n) == [r \in Idx(n) |-> [c \in Idx(n) |-> 0]]

\* board[r, :] and board[:, c]
Row(b, r) == b[r]
Col(b, c) == [r \in DOMAIN b |-> b[r][c]]

\* a value stored into the uint8 board
StoreU8(x) == x % 256

\* 2 ** new_line[k] on an int32 element: the power is taken in 32-bit integers
MergeValueWrong(e) == e
MergeValue(e) ==
    IF e <= 30 THEN 2 ^ e
    ELSE IF e = 31 THEN (-2147483647) - 1
    ELSE 0

-----------------------------------------------------------------------------
(* _combiner: one pass over a line, towards index 0 (way 0) or towards    *)
(* index size-1 (way 1).  st = [new_line, is_combined, cur, sps].          *)

CombineAtNoFlag(line, i, st, edge, d) ==
    IF line[i] = 0 THEN st
    ELSE IF st.cur = edge
         THEN [st EXCEPT !.new_line[st.cur] = line[i], !.cur = st.cur + d]
         ELSE IF st.new_line[st.cur - d] = line[i]
              THEN [st EXCEPT !.new_line[st.cur - d] = st.new_line[st.cur - d] + 1,
                              !.sps = Append(st.sps, MergeValue(st.new_line[st.cur - d] + 1)),
                              !.is_combined[st.cur - d] = 1]
              ELSE [st EXCEPT !.new_line[st.cur] = line[i], !.cur = st.cur + d]

CombineAtNoIncrement(line, i, st, edge, d) ==
    IF line[i] = 0 THEN st
    ELSE IF st.cur = edge
         THEN [st EXCEPT !.new_line[st.cur] = line[i], !.cur = st.cur + d]
         ELSE IF st.new_line[st.cur - d] = line[i] /\ st.is_combined[st.cur - d] = 0
              THEN [st EXCEPT !.sps = Append(st.sps, MergeValue(st.new_line[st.cur - d] + 1)),
                              !.is_combined[st.cur - d] = 1]
              ELSE [st EXCEPT !.new_line[st.cur] = line[i], !.cur = st.cur + d]

\* the body of the loop at index i; edge is the first slot, d the cursor's step
CombineAt(line, i, st, edge, d) ==
    IF line[i] = 0 THEN st
    ELSE IF st.cur = edge
         THEN [st EXCEPT !.new_line[st.cur] = line[i], !.cur = st.cur + d]
         ELSE IF st.new_line[st.cur - d] = line[i] /\ st.is_combined[st.cur - d] = 0
              THEN [st EXCEPT !.new_line[st.cur - d] = st.new_line[st.cur - d] + 1,
                              !.sps = Append(st.sps, MergeValue(st.new_line[st.cur - d] + 1)),
                              !.is_combined[st.cur - d] = 1]
              ELSE [st EXCEPT !.new_line[st.cur] = line[i], !.cur = st.cur + d]

RECURSIVE CombineUp(_, _, _, _)
\* for i in range(self.size)
CombineUp(line, n, i, st) ==
    IF i >= n THEN st
    ELSE CombineUp(line, n, i + 1, CombineAt(line, i, st, 0, 1))

RECURSIVE CombineDown(_, _, _, _)
\* for i in range(self.size - 1, -1, -1)
CombineDown(line, n, i, st) ==
    IF i < 0 THEN st
    ELSE CombineDown(line, n, i - 1, CombineAt(line, i, st, n - 1, -1))

\* _combiner(line, way) with self.score_per_step = sps on entry; way is 0 or 1.
\* Returns [new_line, sps].
_combiner(line, way, sps, n) ==
    LET st0 == [new_line |-> [k \in Idx(n) |-> 0],
                is_combined |-> [k \in Idx(n) |-> 0],
                cur |-> IF way = 0 THEN 0 ELSE n - 1,
                sps |-> sps]
        st  == IF way = 0 THEN CombineUp(line, n, 0, st0)
                          ELSE CombineDown(line, n, n - 1, st0)
    IN  [new_line |-> st.new_line, sps |-> st.sps]

-----------------------------------------------------------------------------
(* step, lines 215-222: the move applied to every row or every column.     *)
(* m = [board, sps].                                                       *)

RECURSIVE MoveRows(_, _, _, _)
MoveRows(m, way, r, n) ==
    IF r >= n THEN m
    ELSE LET res == _combiner(Row(m.board, r), way, m.sps, n)
         IN  MoveRows([board |-> [m.board EXCEPT ![r] = [c \in Idx(n) |-> StoreU8(res.new_line[c])]],
                       sps |-> res.sps], way, r + 1, n)

RECURSIVE MoveCols(_, _, _, _)
MoveCols(m, way, c, n) ==
    IF c >= n THEN m
    ELSE LET res == _combiner(Col(m.board, c), way, m.sps, n)
         IN  MoveCols([board |-> [r \in Idx(n) |->
                                    [m.board[r] EXCEPT ![c] = StoreU8(res.new_line[r])]],
                       sps |-> res.sps], way, c + 1, n)

ApplyMoveTransposed(b, action, n) ==
    IF action < 2 THEN MoveCols([board |-> b, sps |-> <<>>], action, 0, n)
                  ELSE MoveRows([board |-> b, sps |-> <<>>], action - 2, 0, n)

\* the move of a legal step on board b (score_per_step is [] at that point)
ApplyMove(b, action, n) ==
    IF action < 2 THEN MoveRows([board |-> b, sps |-> <<>>], action, 0, n)
                  ELSE MoveCols([board |-> b, sps |-> <<>>], action - 2, 0, n)

-----------------------------------------------------------------------------
(* Legality *)

_check_if_same_no_skip(b, way, n) ==
    IF way = 0
    THEN \E r \in Idx(n) : \E c \in Idx(n - 1) : b[r][c] = b[r][c + 1]
    ELSE \E c \in Idx(n) : \E r \in Idx(n - 1) : b[r][c] = b[r + 1][c]

\* _check_if_same(way): two equal non-empty cells side by side in a row (way 0)
\* or one above the other in a column (way 1)
_check_if_same(b, way, n) ==
    IF way = 0
    THEN \E r \in Idx(n) : \E c \in Idx(n - 1) :
            b[r][c] # 0 /\ b[r][c] = b[r][c + 1]
    ELSE \E c \in Idx(n) : \E r \in Idx(n - 1) :
            b[r][c] # 0 /\ b[r][c] = b[r + 1][c]

\* board[:, i] != 0 (columns, way 0 and 1) or board[i, :] != 0 (rows, way 2 and 3)
Occupied(b, way, i, n) ==
    IF way < 2 THEN [k \in Idx(n) |-> b[k][i] # 0]
               ELSE [k \in Idx(n) |-> b[i][k] # 0]

RECURSIVE CheckLegalScan(_, _, _, _, _, _)
\* the loop of _check_legal: i runs from `i` in steps of d while it is in 0..n-1
CheckLegalScan(b, way, checker, i, d, n) ==
    IF i < 0 \/ i >= n THEN FALSE
    ELSE LET line == Occupied(b, way, i, n)
         IN  IF \E k \in Idx(n) : (checker[k] # line[k]) /\ checker[k]
             THEN TRUE
             ELSE CheckLegalScan(b, way, [k \in Idx(n) |-> checker[k] \/ line[k]],
                                 i + d, d, n)

_check_legal_same_side(b, way, n) ==
    CheckLegalScan(b, way, Occupied(b, way, 0, n), 1, 1, n)

\* _check_legal(way): a tile has an empty cell somewhere on the side it moves to
_check_legal(b, way, n) ==
    IF way = 0 \/ way = 2
    THEN CheckLegalScan(b, way, Occupied(b, way, n - 1, n), n - 2, -1, n)
    ELSE CheckLegalScan(b, way, Occupied(b, way, 0, n), 1, 1, n)

_update_legal_moves_adjacency_only(b, n) ==
    [i \in 0 .. 3 |-> IF _check_if_same(b, IF i < 2 THEN 0 ELSE 1, n) THEN 1 ELSE 0]

_update_legal_moves_all_legal(b, n) == [i \in 0 .. 3 |-> 1]

\* _update_legal_moves(): the vector computed for board b
_update_legal_moves(b, n) ==
    LET same == [i \in 0 .. 3 |->
                    IF _check_if_same(b, IF i < 2 THEN 0 ELSE 1, n) THEN 1 ELSE 0]
    IN  [i \in 0 .. 3 |->
            IF same[i] = 0 /\ _check_legal(b, i, n) THEN 1 ELSE same[i]]

-----------------------------------------------------------------------------
(* Spawn and the terminal tests *)

RECURSIVE ZeroPosFrom(_, _, _)
\* np.where(board == 0): the empty cells in row-major order, from cell k on
ZeroPosFrom(b, k, n) ==
    IF k >= n * n THEN <<>>
    ELSE LET r == k \div n
             c == k % n
         IN  IF b[r][c] = 0 THEN <<(<<r, c>>)>> \o ZeroPosFrom(b, k + 1, n)
                            ELSE ZeroPosFrom(b, k + 1, n)

ZeroPos(b, n) == ZeroPosFrom(b, 0, n)

\* the values _random_1_2 can return
Random12 == {1, 2}

_spawn_block_any_cell(b, idx, val, n) ==
    [b EXCEPT ![idx \div n][idx % n] = val]

\* _spawn_block() with idx and val the two random draws, 0 <= idx < number of empty cells
_spawn_block(b, idx, val, n) ==
    LET p == ZeroPos(b, n)[idx + 1]
    IN  [b EXCEPT ![p[1]][p[2]] = val]

_is_game_over_never(b, n) == FALSE

_is_game_over_full_only(b, n) ==
    ~(\E r \in Idx(n) : \E c \in Idx(n) : b[r][c] = 0)

_is_game_over(b, n) ==
    IF \E r \in Idx(n) : \E c \in Idx(n) : b[r][c] = 0 THEN FALSE
    ELSE IF _check_if_same(b, 0, n) \/ _check_if_same(b, 1, n) THEN FALSE
    ELSE TRUE

_is_reach_goal_off_by_one(b, g, n) ==
    \E r \in Idx(n) : \E c \in Idx(n) : b[r][c] = g + 1

_is_reach_goal(b, g, n) ==
    \E r \in Idx(n) : \E c \in Idx(n) : b[r][c] = g

_update_best_score_overwrite(best, sc) == sc

_update_best_score(best, sc) == Max2(best, sc)

-----------------------------------------------------------------------------
(* The handlers *)

\* the directions of action_space and the other integers a caller can pass
Directions == 0 .. 3
OutOfRange == {-1, 4}

\* the idx draws of a spawn on b: np_random.integers(k) for k empty cells;
\* -1 stands for the ValueError it raises when k = 0
Draws(b, n) ==
    IF Len(ZeroPos(b, n)) = 0 THEN {-1} ELSE 0 .. (Len(ZeroPos(b, n)) - 1)

\* legal_moves[action]: numpy takes -4..-1 from the end, anything else outside
\* 0..3 is an IndexError
InIndexRange(action) == action >= -4 /\ action <= 3
FlagAt(lm, action) == IF action < 0 THEN lm[action + 4] ELSE lm[action]

is_changed_always(lm, action) == TRUE

is_changed_inverted(lm, action) == FlagAt(lm, action) = 0

\* is_changed = self.legal_moves[action] == 1
is_changed(lm, action) == FlagAt(lm, action) = 1

RECURSIVE MaxCellFrom(_, _, _)
\* np.max(self.board), from cell k on
MaxCellFrom(b, k, n) ==
    IF k >= n * n THEN 0
    ELSE Max2(b[k \div n][k % n], MaxCellFrom(b, k + 1, n))

\* _get_info(): the dict built from the fields as they are at the call
_get_info(sps, sc, b, lm, legal, n) ==
    [score_per_step |-> sps, score |-> sc, max |-> MaxCellFrom(b, 0, n),
     action_mask |-> lm, is_legal |-> legal]

ReturnedInfoCopied(d, lm) == d

\* the dict d as the caller reads it when the call returns: "action_mask" is the
\* array self.legal_moves itself, not a copy, so it shows what was written into
\* the array after the dict was built (reset builds the dict at line 67 and
\* updates the array at line 72); lm is the array at the return
ReturnedInfo(d, lm) == [d EXCEPT !.action_mask = lm]

\* no dict: nothing was called yet, or the last call raised
NoInfo == [score_per_step |-> <<>>, score |-> 0, max |-> 0,
           action_mask |-> [i \in Directions |-> 1], is_legal |-> TRUE]

\* the second instance right after __init__; it carries the fields reset and
\* step read or return, paired: both instances were reset with the same seed
\* and given the same directions since, sync: their generators are in the
\* same state
FreshTwin(n) ==
    [board |-> ZeroBoard(n), legal_moves |-> [i \in Directions |-> 1],
     is_legal |-> TRUE, score |-> 0, reward |-> 0, terminated |-> FALSE,
     raised |-> "none", paired |-> FALSE, sync |-> FALSE]

\* the state after __init__(size=n): no reset yet, board and legal_moves not
\* created
InitOfSize(n) ==
    /\ size = n
    /\ board_goal = EngineGoalExp
    /\ board = ZeroBoard(size)
    /\ legal_moves = [i \in Directions |-> 1]
    /\ is_legal = TRUE
    /\ score = 0
    /\ best_score = 0
    /\ score_per_step = <<>>
    /\ reward = 0
    /\ terminated = FALSE
    /\ raised = "none"
    /\ call = [op |-> "init", action |-> 0]
    /\ moved = ZeroBoard(size)
    /\ n_spawn = 0
    /\ info = NoInfo
    /\ episode_over = FALSE
    /\ twin = FreshTwin(size)
    /\ calls = 0

Init == \E n \in EngineSizes : InitOfSize(n)

\* the boards a spawn on b can produce, one for each pair of draws
SpawnResults(b, n) ==
    {_spawn_block(b, idx, val, n) : idx \in Draws(b, n) \ {-1}, val \in Random12}

\* the outcome of a reset that returns: b1 the board after the first spawn, b2
\* after the second; the dict is built (line 67) while legal_moves is all ones
ResetReturns(b1, b2, n) ==
    [board |-> b2, moved |-> b1, n_spawn |-> 2, raised |-> "none",
     legal_moves |-> _update_legal_moves(b2, n),
     info |-> ReturnedInfo(_get_info(<<>>, 0, b2, [i \in 0 .. 3 |-> 1], TRUE, n),
                           _update_legal_moves(b2, n))]

ResetOutcomesOneSpawn(n) ==
    {[ResetReturns(ZeroBoard(n), b1, n) EXCEPT !.n_spawn = 1] :
     b1 \in SpawnResults(ZeroBoard(n), n)}

\* reset() on a board of size n, lines 48-72: the outcomes over the draws of its
\* two spawns.  A spawn that finds no empty cell raises ValueError and leaves
\* what was assigned before it.
ResetOutcomes(n) ==
    LET fail(b, k) ==
            [board |-> b, moved |-> b, n_spawn |-> k, raised |-> "ValueError",
             legal_moves |-> [i \in 0 .. 3 |-> 1], info |-> NoInfo]
    IN  IF SpawnResults(ZeroBoard(n), n) = {}
        THEN {fail(ZeroBoard(n), 0)}
        ELSE UNION {IF SpawnResults(b1, n) = {}
                    THEN {fail(b1, 1)}
                    ELSE {ResetReturns(b1, b2, n) : b2 \in SpawnResults(b1, n)} :
                    b1 \in SpawnResults(ZeroBoard(n), n)}

\* reset does not read the fields it overwrites: its outcomes depend on the size only
ResetTable == [n \in EngineSizes \cup DeepSizes |-> ResetOutcomes(n)]

\* reset()
Reset ==
    \E o \in ResetTable[size] :
        /\ call' = [op |-> "reset", action |-> 0]
        /\ board' = o.board
        /\ moved' = o.moved
        /\ n_spawn' = o.n_spawn
        /\ legal_moves' = o.legal_moves
        /\ is_legal' = TRUE
        /\ raised' = o.raised
        /\ score' = IF o.raised = "none" THEN 0 ELSE score
        /\ score_per_step' = IF o.raised = "none" THEN <<>> ELSE score_per_step
        /\ reward' = 0
        /\ terminated' = FALSE
        /\ info' = o.info
        /\ episode_over' = FALSE
        /\ UNCHANGED <<size, board_goal, best_score>>

\* step(action) ending in an exception: what was assigned before it stays
StepRaises(action, exc, legal, b, sc, spawns) ==
    /\ call' = [op |-> "step", action |-> action]
    /\ raised' = exc
    /\ score_per_step' = IF exc = "AttributeError" THEN score_per_step ELSE <<>>
    /\ is_legal' = legal
    /\ board' = b
    /\ moved' = b
    /\ score' = sc
    /\ n_spawn' = spawns
    /\ reward' = 0
    /\ terminated' = FALSE
    /\ info' = NoInfo
    /\ UNCHANGED <<size, board_goal, best_score, legal_moves, episode_over>>

\* step(action) returning: the fields and the returned reward and terminated
StepReturns(action, legal, b, mv, sc, best, sps, rew, term, spawns) ==
    /\ call' = [op |-> "step", action |-> action]
    /\ raised' = "none"
    /\ score_per_step' = sps
    /\ is_legal' = legal
    /\ board' = b
    /\ moved' = mv
    /\ score' = sc
    /\ best_score' = best
    /\ n_spawn' = spawns
    /\ reward' = rew
    /\ terminated' = term
    /\ legal_moves' = _update_legal_moves(b, size)
    /\ info' = ReturnedInfo(_get_info(sps, sc, b, legal_moves', legal, size), legal_moves')
    /\ episode_over' = (episode_over \/ term)
    /\ UNCHANGED <<size, board_goal>>

\* step(action)
Step(action) ==
    IF call.op = "init"
    THEN \* no reset yet: self.n_step does not exist
         StepRaises(action, "AttributeError", is_legal, board, score, 0)
    ELSE IF ~InIndexRange(action)
    THEN StepRaises(action, "IndexError", is_legal, board, score, 0)
    ELSE IF ~is_changed(legal_moves, action)
    THEN StepReturns(action, FALSE, board, board, score, best_score, <<>>, 0, FALSE, 0)
    ELSE IF action < 0
    THEN \* rows, with a way that is neither 0 nor 1: _combiner's assert
         StepRaises(action, "AssertionError", TRUE, board, score, 0)
    ELSE LET m  == ApplyMove(board, action, size)
             sc == score + SumSeq(m.sps)
         IN  IF _is_reach_goal(m.board, board_goal, size)
             THEN StepReturns(action, TRUE, m.board, m.board, sc, best_score,
                              m.sps, 1, TRUE, 0)
             ELSE IF SpawnResults(m.board, size) = {}
             THEN StepRaises(action, "ValueError", TRUE, m.board, sc, 0)
             ELSE \E b2 \in SpawnResults(m.board, size) :
                    IF _is_game_over(b2, size)
                    THEN StepReturns(action, TRUE, b2, m.board, sc,
                                     _update_best_score(best_score, sc),
                                     m.sps, -1, TRUE, 1)
                    ELSE StepReturns(action, TRUE, b2, m.board, sc,
                                     best_score, m.sps, 0, FALSE, 1)

\* the second instance is not called
Next ==
    \/ Reset /\ UNCHANGED <<twin, calls>>
    \/ \E action \in Directions \cup OutOfRange :
          Step(action) /\ UNCHANGED <<twin, calls>>

Spec == Init /\ [][Next]_vars

\* the engine of a larger board and a caller that makes MaxCalls calls: reset
\* first, then step in the directions of DeepDirections
DeepInit == \E n \in DeepSizes : InitOfSize(n)

DeepNext ==
    \/ call.op = "init" /\ Reset /\ calls' = calls + 1 /\ UNCHANGED twin
    \/ \E action \in DeepDirections :
          /\ call.op # "init"
          /\ calls < MaxCalls
          /\ Step(action)
          /\ calls' = calls + 1
          /\ UNCHANGED twin

DeepSpec == DeepInit /\ [][DeepNext]_vars

-----------------------------------------------------------------------------
(* Two instances side by side (TwinSpec).  The first is the engine above,   *)
(* with any history.  reset(seed=s) is then called on both with the same s, *)
(* and from there both are given the same directions.  A seeded generator   *)
(* is a function of its state: two generators in the same state return the  *)
(* same value to the same draw, and are in the same state again after it;   *)
(* generators in different states return unrelated values.  The twin record *)
(* holds the second instance; reset and step are written for it as          *)
(* functions of the record and of the two draws of a spawn, d = <<idx, val>>.*)

\* the draws that made a spawn turn board a into board b
DrawOf(a, b, n) ==
    CHOOSE d \in (Draws(a, n) \ {-1}) \X Random12 :
        _spawn_block(a, d[1], d[2], n) = b

\* reset(seed=s) on the second instance, lines 46-74, d1 and d2 the draws of its
\* two spawns (both find an empty cell)
TwinReset(t, d1, d2, n) ==
    LET b1 == _spawn_block(ZeroBoard(n), d1[1], d1[2], n)
        b2 == _spawn_block(b1, d2[1], d2[2], n)
    IN  [t EXCEPT !.board = b2,
                  !.legal_moves = _update_legal_moves(b2, n),
                  !.is_legal = TRUE,
                  !.score = 0,
                  !.reward = 0,
                  !.terminated = FALSE,
                  !.raised = "none"]

TwinSpawnsOnIllegal(t, action, n, g) ==
    /\ ~_is_reach_goal(ApplyMove(t.board, action, n).board, g, n)
    /\ Draws(ApplyMove(t.board, action, n).board, n) # {-1}

\* step(action) on the second instance reaches its spawn (line 230) with an
\* empty cell on the board
TwinSpawns(t, action, n, g) ==
    /\ is_changed(t.legal_moves, action)
    /\ ~_is_reach_goal(ApplyMove(t.board, action, n).board, g, n)
    /\ Draws(ApplyMove(t.board, action, n).board, n) # {-1}

\* step(action) on the second instance, lines 207-248, for a direction 0..3;
\* d the draws of its spawn, if it spawns
TwinStep(t, action, d, n, g) ==
    IF ~is_changed(t.legal_moves, action)
    THEN [t EXCEPT !.is_legal = FALSE, !.reward = 0, !.terminated = FALSE,
                   !.raised = "none",
                   !.legal_moves = _update_legal_moves(t.board, n)]
    ELSE LET m  == ApplyMove(t.board, action, n)
             sc == t.score + SumSeq(m.sps)
         IN  IF _is_reach_goal(m.board, g, n)
             THEN [t EXCEPT !.board = m.board, !.score = sc, !.is_legal = TRUE,
                            !.reward = 1, !.terminated = TRUE, !.raised = "none",
                            !.legal_moves = _update_legal_moves(m.board, n)]
             ELSE IF Draws(m.board, n) = {-1}
             THEN [t EXCEPT !.board = m.board, !.score = sc, !.is_legal = TRUE,
                            !.reward = 0, !.terminated = FALSE,
                            !.raised = "ValueError"]
             ELSE LET b2 == _spawn_block(m.board, d[1], d[2], n)
                  IN  [t EXCEPT !.board = b2, !.score = sc, !.is_legal = TRUE,
                                !.reward = IF _is_game_over(b2, n) THEN -1 ELSE 0,
                                !.terminated = _is_game_over(b2, n),
                                !.raised = "none",
                                !.legal_moves = _update_legal_moves(b2, n)]

\* the draws of the two spawns of each returning reset of the first instance,
\* by the board before and after its second spawn
ResetDraws ==
    [n \in EngineSizes |->
        [bb \in {<<o.moved, o.board>> : o \in {x \in ResetTable[n] : x.raised = "none"}} |->
            <<DrawOf(ZeroBoard(n), bb[1], n), DrawOf(bb[1], bb[2], n)>>]]

\* reset on the second instance with the draws of each returning reset of the
\* first: reset assigns every field the record carries (lines 48-58), so its
\* result does not depend on the record it is applied to
TwinResetTable ==
    [n \in EngineSizes |->
        [bb \in DOMAIN ResetDraws[n] |->
            [TwinReset(FreshTwin(n), ResetDraws[n][bb][1], ResetDraws[n][bb][2], n)
                EXCEPT !.paired = TRUE, !.sync = TRUE]]]

\* reset(seed=s) on both instances with the same s: both generators are in the
\* state s gives, and both spawns of each reset draw on a board with as many
\* empty cells as the other's
BothReset ==
    /\ Reset
    /\ twin' = IF raised' = "none"
               THEN TwinResetTable[size][<<moved', board'>>]
               ELSE [twin EXCEPT !.raised = raised', !.paired = TRUE, !.sync = TRUE]
    /\ UNCHANGED calls

\* step(action) on both instances.  The second draws what the first drew when
\* their generators are in the same state and both spawn on boards with the
\* same number of empty cells; the generators stay in the same state when both
\* spawn so, or when neither spawns.
BothStep(action) ==
    /\ twin.paired
    /\ Step(action)
    /\ LET spawns == TwinSpawns(twin, action, size, board_goal)
           tm     == ApplyMove(twin.board, action, size).board
       IN  IF ~spawns
           THEN twin' = [TwinStep(twin, action, <<0, 1>>, size, board_goal)
                           EXCEPT !.sync = twin.sync /\ n_spawn' = 0]
           ELSE IF /\ twin.sync
                   /\ n_spawn' = 1
                   /\ Len(ZeroPos(tm, size)) = Len(ZeroPos(moved', size))
           THEN twin' = TwinStep(twin, action, DrawOf(moved', board', size),
                                 size, board_goal)
           ELSE \E d \in (Draws(tm, size) \ {-1}) \X Random12 :
                   twin' = [TwinStep(twin, action, d, size, board_goal)
                              EXCEPT !.sync = FALSE]
    /\ UNCHANGED calls

\* before the two are reset together only the first instance is called
TwinNext ==
    \/ ~twin.paired /\ Reset /\ UNCHANGED <<twin, calls>>
    \/ \E action \in Directions :
          ~twin.paired /\ Step(action) /\ UNCHANGED <<twin, calls>>
    \/ BothReset
    \/ \E action \in Directions : BothStep(action)

TwinSpec == Init /\ [][TwinNext]_vars

-----------------------------------------------------------------------------
(* The operations of step applied on their own to any board: the legal     *)
(* moves of a board, then the move of lines 215-222 in one direction       *)
(* (UnitSpec); one spawn, or two in a row as in reset (SpawnSpec).         *)

\* every board of size n with exponents up to e
FullBoards(n, e) == [Idx(n) -> [Idx(n) -> 0 .. e]]

\* the board of size n that holds line as its row k, or as its column k
RowBoard(k, line, n) == [r \in Idx(n) |-> [c \in Idx(n) |-> IF r = k THEN line[c] ELSE 0]]
ColBoard(k, line, n) == [r \in Idx(n) |-> [c \in Idx(n) |-> IF c = k THEN line[r] ELSE 0]]

\* the boards drawn: every board up to MaxFullSize, and up to MaxLineSize every
\* board that holds one row or one column
UnitBoardDrawn ==
    \/ /\ size \in 1 .. MaxFullSize
       /\ board \in FullBoards(size, MaxFullExp)
    \/ /\ size \in 1 .. MaxLineSize
       /\ \E k \in Idx(size), line \in [Idx(size) -> 0 .. MaxLineExp] :
             \/ board = RowBoard(k, line, size)
             \/ board = ColBoard(k, line, size)

UnitInit ==
    /\ UnitBoardDrawn
    /\ board_goal = EngineGoalExp
    /\ legal_moves = [i \in Directions |-> 1]
    /\ is_legal = TRUE
    /\ score = 0
    /\ best_score = 0
    /\ score_per_step = <<>>
    /\ reward = 0
    /\ terminated = FALSE
    /\ raised = "none"
    /\ call = [op |-> "input", action |-> 0]
    /\ moved = board
    /\ n_spawn = 0
    /\ info = NoInfo
    /\ episode_over = FALSE
    /\ twin = FreshTwin(size)
    /\ calls = 0

\* _update_legal_moves() on the board as drawn
U_update_legal_moves ==
    /\ call.op = "input"
    /\ call' = [op |-> "_update_legal_moves", action |-> 0]
    /\ legal_moves' = _update_legal_moves(board, size)
    /\ UNCHANGED <<size, board_goal, board, is_legal, score, best_score,
                   score_per_step, reward, terminated, raised, moved, n_spawn,
                   info, episode_over, twin, calls>>

\* the move of step (lines 215-222) in direction action, whatever its flag
U_move(action) ==
    /\ call.op = "_update_legal_moves"
    /\ call' = [op |-> "move", action |-> action]
    /\ board' = ApplyMove(board, action, size).board
    /\ score_per_step' = ApplyMove(board, action, size).sps
    /\ moved' = board'
    /\ UNCHANGED <<size, board_goal, legal_moves, is_legal, score, best_score,
                   reward, terminated, raised, n_spawn, info, episode_over, twin, calls>>

UnitNext ==
    \/ U_update_legal_moves
    \/ \E action \in Directions : U_move(action)

UnitSpec == UnitInit /\ [][UnitNext]_vars

\* the boards of size WideSize that hold one row or one column of large tiles
WideInit ==
    /\ size = WideSize
    /\ \E k \in Idx(size), line \in [Idx(size) -> WideExps] :
          \/ board = RowBoard(k, line, size)
          \/ board = ColBoard(k, line, size)
    /\ board_goal = WideGoalExp
    /\ legal_moves = [i \in Directions |-> 1]
    /\ is_legal = TRUE
    /\ score = 0
    /\ best_score = 0
    /\ score_per_step = <<>>
    /\ reward = 0
    /\ terminated = FALSE
    /\ raised = "none"
    /\ call = [op |-> "input", action |-> 0]
    /\ moved = board
    /\ n_spawn = 0
    /\ info = NoInfo
    /\ episode_over = FALSE
    /\ twin = FreshTwin(size)
    /\ calls = 0

WideSpec == WideInit /\ [][UnitNext]_vars

SpawnInit ==
    /\ size \in 1 .. MaxFullSize
    /\ board_goal = EngineGoalExp
    /\ board \in FullBoards(size, MaxFullExp)
    /\ legal_moves = [i \in Directions |-> 1]
    /\ is_legal = TRUE
    /\ score = 0
    /\ best_score = 0
    /\ score_per_step = <<>>
    /\ reward = 0
    /\ terminated = FALSE
    /\ raised = "none"
    /\ call = [op |-> "input", action |-> 0]
    /\ moved = board
    /\ n_spawn = 0
    /\ info = NoInfo
    /\ episode_over = FALSE
    /\ twin = FreshTwin(size)
    /\ calls = 0

\* _spawn_block() on the board as drawn, and once more on the result (reset
\* spawns twice in a row)
U_spawn ==
    /\ raised = "none"
    /\ n_spawn < 2
    /\ call' = [op |-> "_spawn_block", action |-> 0]
    /\ moved' = board
    /\ IF SpawnResults(board, size) = {}
       THEN board' = board /\ raised' = "ValueError" /\ n_spawn' = n_spawn
       ELSE /\ board' \in SpawnResults(board, size)
            /\ raised' = "none"
            /\ n_spawn' = n_spawn + 1
    /\ UNCHANGED <<size, board_goal, legal_moves, is_legal, score, best_score,
                   score_per_step, reward, terminated, info, episode_over, twin,
                   calls>>

SpawnNext == U_spawn

SpawnSpec == SpawnInit /\ [][SpawnNext]_vars

-----------------------------------------------------------------------------
(* Reference definitions used by the properties *)

\* the line of board b a move in direction action works on: row k for Left and
\* Right, column k for Up and Down
LineOf(b, action, k) == IF action < 2 THEN Row(b, k) ELSE Col(b, k)

\* Left and Up compact towards index 0, Right and Down towards index n-1
TowardsZero(action) == action = 0 \/ action = 2

RECURSIVE TilesFrom(_, _, _)
\* the non-empty tiles of line[k .. n-1] in index order
TilesFrom(line, k, n) ==
    IF k >= n THEN <<>>
    ELSE IF line[k] = 0 THEN TilesFrom(line, k + 1, n)
    ELSE <<line[k]>> \o TilesFrom(line, k + 1, n)

Reverse(t) == [i \in 1 .. Len(t) |-> t[Len(t) + 1 - i]]

\* the non-empty tiles of a line in their order starting from the compaction edge
Tiles(line, action, n) ==
    IF TowardsZero(action) THEN TilesFrom(line, 0, n)
                           ELSE Reverse(TilesFrom(line, 0, n))

RECURSIVE RefMerge(_)
\* merge the next two tiles when they are equal, else emit the next tile
RefMerge(t) ==
    IF Len(t) < 2 THEN t
    ELSE IF t[1] = t[2] THEN <<t[1] + 1>> \o RefMerge(SubSeq(t, 3, Len(t)))
    ELSE <<t[1]>> \o RefMerge(Tail(t))

RECURSIVE RefValues(_)
\* the numeric values of the tiles RefMerge produces by merging, in order
RefValues(t) ==
    IF Len(t) < 2 THEN <<>>
    ELSE IF t[1] = t[2] THEN <<2 ^ (t[1] + 1)>> \o RefValues(SubSeq(t, 3, Len(t)))
    ELSE RefValues(Tail(t))

RECURSIVE RefExps(_)
\* the exponents of the tiles RefMerge produces by merging, in order
RefExps(t) ==
    IF Len(t) < 2 THEN <<>>
    ELSE IF t[1] = t[2] THEN <<t[1] + 1>> \o RefExps(SubSeq(t, 3, Len(t)))
    ELSE RefExps(Tail(t))

RECURSIVE RefExpsFrom(_, _, _, _)
\* the exponents of the merged tiles of lines k .. n-1 of board b, line after line
RefExpsFrom(b, action, k, n) ==
    IF k >= n THEN <<>>
    ELSE RefExps(Tiles(LineOf(b, action, k), action, n))
            \o RefExpsFrom(b, action, k + 1, n)

RECURSIVE IsTwoToThe(_, _)
\* v = 2^e, decided by halving so that no power beyond the value itself is taken
IsTwoToThe(v, e) ==
    IF e = 0 THEN v = 1
    ELSE v > 0 /\ v % 2 = 0 /\ IsTwoToThe(v \div 2, e - 1)

\* the tiles t laid out from the compaction edge of a line of length n
Padded(t, action, n) ==
    [i \in Idx(n) |->
        LET k == IF TowardsZero(action) THEN i + 1 ELSE n - i
        IN  IF k <= Len(t) THEN t[k] ELSE 0]

RefLine(line, action, n) == Padded(RefMerge(Tiles(line, action, n)), action, n)

RECURSIVE RefValuesFrom(_, _, _, _)
\* the merge values of lines k .. n-1 of board b, line after line
RefValuesFrom(b, action, k, n) ==
    IF k >= n THEN <<>>
    ELSE RefValues(Tiles(LineOf(b, action, k), action, n))
            \o RefValuesFrom(b, action, k + 1, n)

\* a literal line, written from index 0
Line4(a, b, c, d) == [i \in 0 .. 3 |-> <<a, b, c, d>>[i + 1]]

RECURSIVE Explains(_, _)
\* every tile of dst is one tile of src unchanged, or two equal neighbours of src
\* combined into the next exponent; src is used up in order
Explains(src, dst) ==
    IF dst = <<>> THEN src = <<>>
    ELSE \/ /\ Len(src) >= 1
            /\ dst[1] = src[1]
            /\ Explains(Tail(src), Tail(dst))
         \/ /\ Len(src) >= 2
            /\ src[1] = src[2]
            /\ dst[1] = src[1] + 1
            /\ Explains(SubSeq(src, 3, Len(src)), Tail(dst))

RECURSIVE CountTilesFrom(_, _, _)
\* number of non-empty cells of board b from cell k on
CountTilesFrom(b, k, n) ==
    IF k >= n * n THEN 0
    ELSE (IF b[k \div n][k % n] # 0 THEN 1 ELSE 0) + CountTilesFrom(b, k + 1, n)

CountTiles(b, n) == CountTilesFrom(b, 0, n)

RECURSIVE TileSumFrom(_, _, _)
\* sum of 2^exponent over the non-empty cells of board b from cell k on
TileSumFrom(b, k, n) ==
    IF k >= n * n THEN 0
    ELSE (IF b[k \div n][k % n] # 0 THEN 2 ^ b[k \div n][k % n] ELSE 0)
            + TileSumFrom(b, k + 1, n)

TileSum(b, n) == TileSumFrom(b, 0, n)

\* the move in direction action would change board b: some line differs from
\* its reference result
RefChanges(b, action, n) ==
    \E k \in Idx(n) :
        RefLine(LineOf(b, action, k), action, n) # LineOf(b, action, k)

\* the four flags of board b by the reference
RefFlags(b, n) == [d \in 0 .. 3 |-> IF RefChanges(b, d, n) THEN 1 ELSE 0]

\* the cells where boards a and b differ
DiffCells(a, b, n) == {p \in Idx(n) \X Idx(n) : a[p[1]][p[2]] # b[p[1]][p[2]]}

-----------------------------------------------------------------------------
(* Properties of the move and the legal moves (UnitSpec) and of the spawn   *)
(* (SpawnSpec)                                                             *)

\* a transition that is the move in some direction, after the legal moves of
\* the board were computed
MoveStep == call.op = "_update_legal_moves" /\ call'.op = "move"

\* C1: legality soundness: the flag _update_legal_moves computes for a direction
\* is 1 if and only if the move in that direction changes at least one cell.
C1_LegalitySoundness ==
    [][MoveStep => ((legal_moves[call'.action] = 1) <=> (board' # board))]_vars

\* a direction flagged illegal was applied (and changed nothing) on a board that
\* has tiles and empty cells
C1_Witness ==
    /\ call.op = "move"
    /\ legal_moves[call.action] = 0
    /\ \E d \in Directions : legal_moves[d] = 1
    /\ size >= 2

\* C2: every line produced by a move is the reference result: the non-empty
\* tiles from the compaction edge on, equal neighbours merged pairwise once,
\* padded with empty cells; the merge list is the reference's, line after line.
\* Left on [1,1,1,0] gives [2,1,0,0] with merges [4], Left on [3,0,0,3] gives
\* [4,0,0,0] with merges [16].
C2_MoveIsReference ==
    [][MoveStep =>
        /\ \A k \in Idx(size) :
              LineOf(board', call'.action, k)
                = RefLine(LineOf(board, call'.action, k), call'.action, size)
        /\ score_per_step' = RefValuesFrom(board, call'.action, 0, size)
        /\ (size = 4 /\ call'.action = 0 /\ CountTiles(board, size) = 3
              /\ Row(board, 0) = Line4(1, 1, 1, 0))
            => (Row(board', 0) = Line4(2, 1, 0, 0) /\ score_per_step' = <<4>>)
        /\ (size = 4 /\ call'.action = 0 /\ CountTiles(board, size) = 2
              /\ Row(board, 0) = Line4(3, 0, 0, 3))
            => (Row(board', 0) = Line4(4, 0, 0, 0) /\ score_per_step' = <<16>>)
    ]_vars

\* Left was applied to a row [1,1,1,0] of a board of size 4
C2_Witness ==
    /\ call.op = "move"
    /\ call.action = 0
    /\ size = 4
    /\ Row(board, 0) = Line4(2, 1, 0, 0)
    /\ score_per_step = <<4>>

\* C3: no double merge: every tile of a moved line is one source tile unchanged or
\* two equal source tiles combined into exponent+1, the number of tiles drops by
\* the number of recorded merges, four equal tiles e,e,e,e become e+1,e+1,0,0
\* and three equal tiles become two.
C3_NoDoubleMerge ==
    [][MoveStep =>
        /\ \A k \in Idx(size) :
              LET src == Tiles(LineOf(board, call'.action, k), call'.action, size)
                  dst == Tiles(LineOf(board', call'.action, k), call'.action, size)
              IN  /\ Explains(src, dst)
                  /\ (Len(src) = 4 /\ \A i \in 1 .. 4 : src[i] = src[1])
                        => dst = <<src[1] + 1, src[1] + 1>>
                  /\ (Len(src) = 3 /\ \A i \in 1 .. 3 : src[i] = src[1])
                        => dst = <<src[1] + 1, src[1]>>
        /\ CountTiles(board', size) = CountTiles(board, size) - Len(score_per_step')
    ]_vars

\* a line of four equal tiles 1,1,1,1 was moved: two merges, two tiles of exponent 2
C3_Witness ==
    /\ call.op = "move"
    /\ size = 4
    /\ score_per_step = <<4, 4>>
    /\ CountTiles(board, size) = 2
    /\ \E k \in Idx(size) :
          Tiles(LineOf(board, call.action, k), call.action, size) = <<2, 2>>

\* C9: value conservation: the sum of 2^exponent over the non-empty cells is the
\* same right after the move as right before it.
C9_ValueConservation ==
    [][MoveStep => TileSum(board', size) = TileSum(board, size)]_vars

\* a move that merged tiles in two lines
C9_Witness ==
    /\ call.op = "move"
    /\ Len(score_per_step) = 2
    /\ size = 2
    /\ CountTiles(board, size) = 2

\* C10: spawn validity: a spawn changes exactly one cell, which was empty and
\* holds exponent 1 or 2 afterwards; the other cells, the score and the best
\* score are unchanged.
C10_SpawnValidity ==
    [][(call'.op = "_spawn_block" /\ raised' = "none") =>
        /\ Cardinality(DiffCells(board, board', size)) = 1
        /\ \A p \in DiffCells(board, board', size) :
              board[p[1]][p[2]] = 0 /\ board'[p[1]][p[2]] \in {1, 2}
        /\ score' = score
        /\ best_score' = best_score
    ]_vars

\* a second spawn in a row, of a 4-tile (exponent 2), on a board that already
\* held tiles and whose first cell was occupied
C10_Witness ==
    /\ call.op = "_spawn_block"
    /\ raised = "none"
    /\ n_spawn = 2
    /\ \E p \in DiffCells(moved, board, size) : board[p[1]][p[2]] = 2
    /\ moved[0][0] # 0
    /\ CountTiles(board, size) >= 3

-----------------------------------------------------------------------------
(* Properties of step (Spec) *)

\* a transition that is a call of step after a reset, with a direction of the
\* action space
StepCall ==
    call.op # "init" /\ call'.op = "step" /\ call'.action \in Directions

\* some cell of b holds the exponent of the goal
HasGoal(b) == \E r \in Idx(size) : \E c \in Idx(size) : b[r][c] = board_goal

\* b has no empty cell and no two equal tiles next to each other in a row or column
DeadBoard(b) ==
    /\ \A r \in Idx(size) : \A c \in Idx(size) : b[r][c] # 0
    /\ \A r \in Idx(size) : \A c \in Idx(size - 1) : b[r][c] # b[r][c + 1]
    /\ \A r \in Idx(size - 1) : \A c \in Idx(size) : b[r][c] # b[r + 1][c]

\* C4: a step in a direction whose flag is 0 leaves the board, the score and the
\* best score unchanged, spawns nothing and returns reward 0, terminated false
\* and is_legal false.
C4_IllegalMoveNoOp ==
    [][(StepCall /\ legal_moves[call'.action] = 0) =>
        /\ raised' = "none"
        /\ board' = board
        /\ score' = score
        /\ best_score' = best_score
        /\ n_spawn' = 0
        /\ reward' = 0
        /\ terminated' = FALSE
        /\ is_legal' = FALSE
    ]_vars

\* an illegal step was made on a board where another direction is legal and
\* points were already scored
C4_Witness ==
    /\ call.op = "step"
    /\ call.action \in Directions
    /\ raised = "none"
    /\ is_legal = FALSE
    /\ legal_moves[call.action] = 0
    /\ \E d \in Directions : legal_moves[d] = 1
    /\ score > 0

\* C5: a legal step returns reward 1 and terminated true if and only if the board
\* right after the move holds the goal exponent; then nothing is spawned (the
\* board is the moved board) and the best score is not updated.
C5_WinStep ==
    [][(StepCall /\ raised' = "none" /\ is_legal') =>
        /\ moved' = ApplyMove(board, call'.action, size).board
        /\ (reward' = 1 /\ terminated') <=> HasGoal(moved')
        /\ HasGoal(moved') =>
              (n_spawn' = 0 /\ board' = moved' /\ best_score' = best_score)
    ]_vars

\* a step won the episode with a score above the best score so far
C5_Witness ==
    /\ call.op = "step"
    /\ raised = "none"
    /\ is_legal
    /\ reward = 1
    /\ terminated
    /\ n_spawn = 0
    /\ score > best_score

\* C6: a legal step that does not reach the goal spawns, and returns terminated
\* true with reward -1 if and only if the board after the spawn has no empty cell
\* and no two equal neighbours; that is exactly when all four flags are 0;
\* otherwise it returns reward 0 and terminated false.
C6_LossStep ==
    (call.op = "step" /\ call.action \in Directions /\ raised = "none"
        /\ is_legal /\ ~HasGoal(moved)) =>
        /\ n_spawn = 1
        /\ (terminated /\ reward = -1) <=> DeadBoard(board)
        /\ DeadBoard(board) <=> (\A d \in Directions : legal_moves[d] = 0)
        /\ ~DeadBoard(board) => (reward = 0 /\ ~terminated)

\* a step lost the episode
C6_Witness ==
    /\ call.op = "step"
    /\ raised = "none"
    /\ is_legal
    /\ ~HasGoal(moved)
    /\ reward = -1
    /\ terminated
    /\ DeadBoard(board)

\* C7 as claimed: on a dead board (full, no equal neighbours) the flags are all 0
\* and the next step in any direction returns terminated true and reward -1.
C7_DeadBoardStepTerminates ==
    [][(StepCall /\ raised = "none" /\ DeadBoard(board)) =>
        /\ \A d \in Directions : legal_moves[d] = 0
        /\ terminated' = TRUE
        /\ reward' = -1
    ]_vars

\* C7 as the code has it: on a dead board the flags are all 0 and the next step
\* in any direction is an illegal move: terminated false, reward 0, is_legal
\* false, board unchanged.
C7_DeadBoardStepIllegal ==
    [][(StepCall /\ raised = "none" /\ DeadBoard(board)) =>
        /\ \A d \in Directions : legal_moves[d] = 0
        /\ raised' = "none"
        /\ terminated' = FALSE
        /\ reward' = 0
        /\ is_legal' = FALSE
        /\ board' = board
    ]_vars

\* a step was made on a dead board
C7_Witness ==
    /\ call.op = "step"
    /\ call.action \in Directions
    /\ raised = "none"
    /\ DeadBoard(board)
    /\ is_legal = FALSE
    /\ terminated = FALSE

\* C8: score accounting: the score grows in a step by the sum of the merge list
\* of that step, which holds the values 2^e of the tiles the step's move merged
\* and nothing from earlier steps; it is empty, and the score unchanged, when the
\* step is illegal or the move merges nothing.
C8_ScoreAccounting ==
    [][(StepCall /\ raised' = "none") =>
        /\ score' - score = SumSeq(score_per_step')
        /\ score_per_step' =
              IF is_legal' THEN RefValuesFrom(board, call'.action, 0, size) ELSE <<>>
        /\ (score_per_step' = <<>>) => (score' = score)
    ]_vars

\* a step merged two pairs after points were already scored
C8_Witness ==
    /\ call.op = "step"
    /\ raised = "none"
    /\ Len(score_per_step) = 2
    /\ score > SumSeq(score_per_step)

-----------------------------------------------------------------------------
(* Properties of reset and of whole episodes (Spec) *)

\* C11: reset postcondition: when reset returns, from whatever state it was
\* called in, the board holds exactly two tiles, each of exponent 1 or 2, the
\* score is 0, the legal-move vector is the one of that board, and the best score
\* is the one from before the call.
C11_ResetPostcondition ==
    [][(call'.op = "reset" /\ raised' = "none") =>
        /\ CountTiles(board', size) = 2
        /\ \A r \in Idx(size) : \A c \in Idx(size) : board'[r][c] \in {0, 1, 2}
        /\ score' = 0
        /\ legal_moves' = RefFlags(board', size)
        /\ best_score' = best_score
    ]_vars

\* reset returned after a lost episode had set the best score, with a tile of
\* exponent 2 on the board and a direction that is not legal
C11_Witness ==
    /\ call.op = "reset"
    /\ raised = "none"
    /\ best_score > 0
    /\ score = 0
    /\ \E r \in Idx(size) : \E c \in Idx(size) : board[r][c] = 2
    /\ \E d \in Directions : legal_moves[d] = 0

\* C12 as claimed: in every state reached by reset and step calls every cell of
\* the board holds an exponent from 0 to board_goal.
C12_ExponentRange ==
    \A r \in Idx(size) : \A c \in Idx(size) : board[r][c] \in 0 .. board_goal

\* C13: the best score never decreases; it changes only in a step that returns
\* reward -1 with terminated true (a loss), which sets it to the maximum of the
\* best score and the score; reset, an illegal step, a step that does not end the
\* episode and a winning step leave it as it is.
C13_BestScore ==
    [][/\ best_score' >= best_score
       /\ (best_score' # best_score) =>
              (call'.op = "step" /\ raised' = "none" /\ is_legal'
                 /\ reward' = -1 /\ terminated')
       /\ (call'.op = "step" /\ raised' = "none" /\ reward' = -1) =>
              best_score' = Max2(best_score, score')
       /\ (call'.op = "reset" \/ reward' # -1 \/ ~is_legal') =>
              best_score' = best_score
    ]_vars

\* an episode was lost with a positive score below the best score of an earlier
\* lost episode
C13_Witness ==
    /\ call.op = "step"
    /\ raised = "none"
    /\ reward = -1
    /\ terminated
    /\ score > 0
    /\ best_score > score

\* C15 as claimed: a step with an integer outside 0..3 always ends in an error,
\* never returns the illegal-move outcome, and leaves the board unchanged.
C15_OutOfRangeRaises ==
    [][(call'.op = "step" /\ call'.action \notin Directions) =>
        /\ raised' # "none"
        /\ board' = board
    ]_vars

\* C16: spawn precondition: no spawn finds the board without an empty cell (no
\* call ends in the ValueError of line 188); the second spawn of reset and the
\* spawn of every legal step that did not reach the goal are made on a board
\* with at least one empty cell.
C16_SpawnHasEmptyCell ==
    /\ raised # "ValueError"
    /\ (call.op = "reset") => n_spawn = 2
    /\ (call.op = "step" /\ raised = "none" /\ is_legal /\ ~HasGoal(moved)) =>
          n_spawn = 1
    /\ (n_spawn > 0) =>
          \E r \in Idx(size) : \E c \in Idx(size) : moved[r][c] = 0

\* a step spawned into the only empty cell left after its move
C16_Witness ==
    /\ call.op = "step"
    /\ raised = "none"
    /\ n_spawn = 1
    /\ CountTiles(moved, size) = size * size - 1
    /\ CountTiles(board, size) = size * size

\* C17 as claimed: once a step has returned terminated true, every later step
\* made before the next reset leaves the board, the score and the best score
\* unchanged.
C17_DoneIsTerminal ==
    [][(episode_over /\ call'.op = "step") =>
        /\ board' = board
        /\ score' = score
        /\ best_score' = best_score
    ]_vars

\* C19: no stuck state within an episode: on a board of size at least 2, after
\* reset and after every step that returns terminated = False before the episode
\* has ended, at least one of the four directions is flagged legal.
C19_NoStuckReady ==
    ( /\ size >= 2
      /\ raised = "none"
      /\ ~episode_over
      /\ \/ call.op = "reset"
         \/ call.op = "step" /\ ~terminated ) =>
        \E d \in Directions : legal_moves[d] = 1

\* a legal step filled the board with its spawn and the episode goes on: the board
\* has no empty cell, and a merge is still possible
C19_Witness ==
    /\ call.op = "step"
    /\ raised = "none"
    /\ is_legal
    /\ ~terminated
    /\ ~episode_over
    /\ \A r \in 0 .. size - 1 : \A c \in 0 .. size - 1 : board[r][c] # 0
    /\ \E d \in Directions : legal_moves[d] = 1

\* C18: the legal-move vector is never stale: whenever reset or step returns
\* (a legal, illegal, winning or losing step), the stored vector and the
\* action_mask of the returned info both hold, for each direction, 1 exactly when
\* the move in that direction would change the board as it is at that return.
C18_LegalMovesFresh ==
    (call.op \in {"reset", "step"} /\ raised = "none") =>
        /\ legal_moves = RefFlags(board, size)
        /\ info.action_mask = RefFlags(board, size)

\* reset returned an info whose action_mask has a 0: the dict was built while the
\* vector was still all ones
C18_Witness ==
    /\ call.op = "reset"
    /\ raised = "none"
    /\ \E d \in Directions : info.action_mask[d] = 0
    /\ \E d \in Directions : info.action_mask[d] = 1
    /\ info.score = 0

-----------------------------------------------------------------------------
(* Properties of the move on large tiles (WideSpec) *)

\* C20: the merge value is exact for every valid goal: whenever a move merges two
\* tiles into a tile of exponent e <= board_goal, the value it records in
\* score_per_step (the value step adds to the score) is exactly 2^e, hence
\* positive: no wraparound of the 32-bit arithmetic of the line buffer.
C20_MergeValueExact ==
    [][call'.op = "move" =>
          LET es == RefExpsFrom(board, call'.action, 0, size)
          IN  /\ Len(score_per_step') = Len(es)
              /\ \A i \in 1 .. Len(es) :
                    es[i] <= board_goal => IsTwoToThe(score_per_step'[i], es[i])]_vars

-----------------------------------------------------------------------------
(* Properties of two instances reset with the same seed (TwinSpec) *)

====
